---- MODULE Spec2Model ----
(***************************************************************************)
(* Model of the resilient fetch engine of hh_vacancies_analytics:          *)
(*   - the retry policies of core/retry_strategy.py (the stateless family  *)
(*     and the circuit breaker),                                           *)
(*   - the failure ledger of fetchers/error_tracker.py,                    *)
(*   - the bounded dispatcher / fetch pipeline of                          *)
(*     fetchers/details_fetcher.py (AsyncVacancyDetailsFetcher),           *)
(*   - the paginated search driver of fetchers/searcher.py.                *)
(*                                                                         *)
(* The dispatcher talks to its policy through strategy.should_retry and    *)
(* strategy.get_delay; the context it builds carries the attempt number    *)
(* and the integer status code of the HTTPException (0 for a network error *)
(* or a timeout).                                                          *)
(***************************************************************************)
EXTENDS Integers, Sequences, FiniteSets, TLC

(* ---- bounds of the model (scaled-down configuration) ---- *)
NumIds == 2
BatchSize == 2
RetryBatchSize == 1
MaxConcurrent == 1
MaxAttempts == 2
FailureThreshold == 3
RecoveryTimeout == 1
MaxTime == 5
MaxFailureCount == 4
MaxPages == 4
SearchBatchSize == 2
PerPage == 2
MaxVacancies == 3
RetryAfterSeconds == 1
ShortMaxDelay == 10

(* ---- values ---- *)
Ids == 1..NumIds
NoneValue == -1
PageCap == 20
StartTime == 1
RETRY_STATUS_CODES == {403, 429, 500, 502, 503, 504}
RETRY_INITIAL_DELAY == 3
RETRY_BACKOFF_FACTOR == 2
RETRY_MAX_DELAY == 120
RETRY_RATE_LIMIT_DELAY == 60
RETRY_FORBIDDEN_DELAY == 30
StatusCodes == {0, 404, 500}
Outcomes == {"ok", "http", "exception"}
\* the Retry-After header of a 429 response: absent, or a number of seconds
RetryAfterHeaders == {NoneValue, RetryAfterSeconds}
Strategies == {"exponential", "circuit_breaker"}
\* create_retry_strategy gives the policy the dispatcher's max_attempts; a caller
\* may also inject a stateless policy with a larger budget of its own
Configurations == {<<"exponential", MaxAttempts>>, <<"exponential", MaxAttempts + 1>>,
                   <<"circuit_breaker", MaxAttempts>>}
\* the pipeline of Spec: the asynchronous fetcher with the stateless policy
\* create_retry_strategy builds for it (the asynchronous fetcher with the
\* circuit breaker is SpecBreakerRun, the synchronous fetcher is SpecSync)
Pipelines == {<<r, cfg>> \in {"async"} \X Configurations :
                 cfg = <<"exponential", MaxAttempts>>}
\* the pipelines of SpecSync: the synchronous fetcher with every policy
SyncPipelines == {"sync"} \X Configurations

Min(a, b) == IF a <= b THEN a ELSE b
Max(a, b) == IF a >= b THEN a ELSE b
SeqToSet(s) == {s[i] : i \in 1..Len(s)}

VARIABLES
    run,                 \* which driver this behaviour runs
    strategy,            \* kind of the injected retry policy
    strategy_max,        \* the policy's own max_attempts
    script,              \* the server: 0 when it answers freely, k when it is scripted
                         \* to fail the attempts 1..k of every identifier and then answer
    max_concurrent,      \* argument of the constructor of the async fetcher or searcher
    policy_call,         \* the last call made on a policy taken on its own: the
                         \* policy, its configuration and the arguments
    policy_ret,          \* what that call returned
    phase,               \* pass of fetch_details_async: first, retry, done
    main_pc,             \* fetch_details_async: about to dispatch a window, or in gather
    pass_ids,            \* list dispatched in the current pass
    batch_start,         \* index i of the current window (1-based)
    pc,                  \* position of each _fetch_with_retry_async task
    attempt,             \* loop variable of each task
    task_result,         \* value each task returned to gather
    delay,               \* local delay of each task: what it sleeps before its next attempt
    retry_after,         \* local retry_after of _fetch_single_async: the wait the
                         \* last 429 response suggested, NoneValue when it gave none
    semaphore,           \* free slots of AsyncVacancyDetailsFetcher.semaphore
    all_details,         \* payloads collected by fetch_details_async
    retry_results,       \* payloads collected by _retry_failed_requests_async
    failed_requests,     \* ErrorTracker.failed_requests (insertion ordered)
    successful_requests, \* ErrorTracker.successful_requests
    state,               \* CircuitBreakerRetry.state
    failure_count,       \* CircuitBreakerRetry.failure_count
    last_failure_time,   \* CircuitBreakerRetry.last_failure_time
    now,                 \* time.time()
    search_pc,           \* position of search_async
    page_pc,             \* position of each _fetch_page task
    page_result,         \* what each _fetch_page task returned
    all_vacancies,       \* items accumulated by search_async
    total_pages,         \* min(first_response['pages'], max_pages, 20)
    max_pages,           \* argument of search_async
    max_vacancies,       \* argument of search_async (0 stands for None)
    page_batch_start,    \* first page of the current window (search_async), or the
                         \* loop variable page (SyncVacancySearcher.search)
    fetches,             \* history: fetch operations per pass and identifier
    only_terminal,       \* history: identifiers whose every fetch so far returned a
                         \*          non-retryable HTTP status
    first_ok,            \* history: identifiers whose first-pass call returned a payload
    last_op,             \* history: last operation performed
    last_ret,            \* history: value of the last should_retry call
    before,              \* history: the breaker before the last operation on it
    consecutive,         \* history: failures signalled since the last success
    last_call,           \* history: the most recent ledger call for each identifier
    first_failure,       \* history: time of the first record_failure of each identifier
                         \*          since its last record_success
    calls,               \* history: the last two ledger calls
    observed_before,     \* history: failed_ids() and statistics() before the last call
    file,                \* the file save_failed_to_file and load_failed_from_file use
    loaded               \* what the last load_failed_from_file returned

vars == <<run, strategy, strategy_max, script, max_concurrent, policy_call, policy_ret,
          phase, main_pc, pass_ids, batch_start, pc, attempt,
          task_result, delay, retry_after, semaphore, all_details, retry_results, failed_requests,
          successful_requests, state, failure_count, last_failure_time, now,
          search_pc, page_pc, page_result, all_vacancies, total_pages, max_pages,
          max_vacancies, page_batch_start,
          fetches, only_terminal, first_ok, last_op, last_ret, before, consecutive,
          last_call, first_failure, calls, observed_before, file, loaded>>

snapshotVars == <<file, loaded>>
\* what only the calls on the ledger change
ledgerHistory == <<last_call, first_failure, calls, observed_before, snapshotVars>>
historyVars == <<only_terminal, first_ok, last_op, last_ret, before, consecutive,
                 ledgerHistory>>
callVars == <<last_op, last_ret, before, consecutive, ledgerHistory>>
breakerVars == <<state, failure_count, last_failure_time>>
ledgerVars == <<failed_requests, successful_requests>>
policyVars == <<run, strategy, strategy_max, script, max_concurrent, policy_call, policy_ret>>
pipelineVars == <<phase, main_pc, pass_ids, batch_start, all_details, retry_results>>
waitVars == <<delay, retry_after>>
taskVars == <<pc, attempt, task_result, waitVars, semaphore>>
searchArgs == <<max_pages, max_vacancies>>
searchVars == <<search_pc, page_pc, page_result, all_vacancies, total_pages,
                page_batch_start, searchArgs>>
\* what no step of a details fetcher or of the breaker changes
configVars == <<policyVars, searchVars>>

(***************************************************************************)
(* Failure ledger (fetchers/error_tracker.py).  failed_requests is a       *)
(* Python dict: a sequence of records in insertion order, one per key.     *)
(***************************************************************************)
\* the kinds of last_error the fetchers write: str(e) of an HTTPException, str(e)
\* of any other exception, and the message of an exhausted retry loop
Errors == {"http", "exception", "attempts"}

\* timestamp is filled by the default_factory with the time of construction
FailedRequest(id, error, status_code, att, time) ==
    [vacancy_id |-> id, attempts |-> att, last_error |-> error,
     last_status_code |-> status_code, timestamp |-> time]

HasRecord(fr, id) == \E i \in 1..Len(fr) : fr[i].vacancy_id = id

\* a ledger that adds a record at every failure
record_failure_Append(fr, id, error, status_code, att, time) ==
    Append(fr, FailedRequest(id, error, status_code, att, time))

\* failed_requests[vacancy_id] = FailedRequest(...): an existing key keeps its place
record_failure(fr, id, error, status_code, att, time) ==
    IF HasRecord(fr, id)
    THEN [i \in 1..Len(fr) |->
             IF fr[i].vacancy_id = id
             THEN FailedRequest(id, error, status_code, att, time)
             ELSE fr[i]]
    ELSE Append(fr, FailedRequest(id, error, status_code, att, time))

\* record_success that leaves the failure record in place
RemoveRecord_Keep(fr, id) == fr

\* del failed_requests[vacancy_id] when present
RemoveRecord(fr, id) == SelectSeq(fr, LAMBDA r : r.vacancy_id # id)

get_failed_ids(fr) == [i \in 1..Len(fr) |-> fr[i].vacancy_id]

\* a path with no file, and a file holding a JSON list
NoFile == [exists |-> FALSE, data |-> <<>>]
FileOf(data) == [exists |-> TRUE, data |-> data]

\* the list of dicts json.dump writes: one dict of five keys per record
FailedData(fr) ==
    [i \in 1..Len(fr) |->
        [vacancy_id |-> fr[i].vacancy_id, attempts |-> fr[i].attempts,
         last_error |-> fr[i].last_error, last_status_code |-> fr[i].last_status_code,
         timestamp |-> fr[i].timestamp]]

\* returns before open() when failed_requests is empty; else open(filepath, 'w')
\* replaces the content
save_failed_to_file(fr, f) ==
    IF fr = <<>> THEN f ELSE FileOf(FailedData(fr))

\* [] when the path does not exist, else item['vacancy_id'] of every item
load_failed_from_file(f) ==
    IF ~f.exists THEN <<>> ELSE [i \in 1..Len(f.data) |-> f.data[i].vacancy_id]

\* successful_requests kept as a list that grows at every call; the numbers
\* above NumIds stand for the repeated entries
AddSuccess_Append(succ, id) == succ \cup {id + NumIds * Cardinality(succ)}

\* self.successful_requests.add(vacancy_id)
AddSuccess(succ, id) == succ \cup {id}

\* the success rate in thousandths of a percent
get_statistics(fr, succ) ==
    LET total_successful == Cardinality(succ)
        total_failed == Len(fr)
    IN  [total_successful |-> total_successful,
         total_failed |-> total_failed,
         success_rate |-> IF total_successful + total_failed > 0
                          THEN (total_successful * 100000)
                                   \div (total_successful + total_failed)
                          ELSE 0]

(***************************************************************************)
(* Retry policies (core/retry_strategy.py).                                *)
(***************************************************************************)
\* the default of every constructor
DefaultRetryable == {403, 429, 500, 502, 503, 504}

\* self.retryable_status_codes = retryable_status_codes or [403, 429, ...]:
\* None and the empty list both give the default
RetryableCodes(configured) == IF configured = {} THEN DefaultRetryable ELSE configured

\* should_retry of a policy whose retryable_status_codes is codes
policy_should_retry(codes, max_attempts, att, status_code) ==
    IF att >= max_attempts THEN FALSE
    ELSE IF status_code # NoneValue THEN status_code \in codes
    ELSE TRUE

\* a policy that stops one attempt early
should_retry_OffByOne(max_attempts, att, status_code) ==
    IF att + 1 >= max_attempts THEN FALSE
    ELSE IF status_code # NoneValue THEN status_code \in RETRY_STATUS_CODES
    ELSE TRUE

\* a policy that does not look at the status code
should_retry_AnyStatus(max_attempts, att, status_code) == att < max_attempts

\* should_retry of ExponentialBackoffRetry, LinearRetry, FibonacciBackoffRetry,
\* ExponentialBackoffWithJitter and AdaptiveRetry (the same body in each)
should_retry(max_attempts, att, status_code) ==
    IF att >= max_attempts THEN FALSE
    ELSE IF status_code # NoneValue THEN status_code \in RETRY_STATUS_CODES
    ELSE TRUE

Breaker(s, c, t) == [state |-> s, failure_count |-> c, last_failure_time |-> t]

\* a breaker that opens one failure early
cb_record_failure_Early(cb, time) ==
    LET count == cb.failure_count + 1
    IN  Breaker(IF count >= FailureThreshold - 1 /\ cb.state = "CLOSED"
                THEN "OPEN" ELSE cb.state,
                count, time)

\* a breaker that opens one failure late
cb_record_failure_Late(cb, time) ==
    LET count == cb.failure_count + 1
    IN  Breaker(IF count > FailureThreshold /\ cb.state = "CLOSED" THEN "OPEN" ELSE cb.state,
                count, time)

\* CircuitBreakerRetry._record_failure
cb_record_failure(cb, time) ==
    LET count == cb.failure_count + 1
    IN  Breaker(IF count >= FailureThreshold /\ cb.state = "CLOSED" THEN "OPEN" ELSE cb.state,
                count, time)

\* a timeout test with >= in place of >
TimeoutElapsed_AtTimeout(cb, time) ==
    /\ cb.last_failure_time # NoneValue
    /\ cb.last_failure_time # 0
    /\ time - cb.last_failure_time >= RecoveryTimeout

\* the OPEN branch of CircuitBreakerRetry.should_retry: TRUE when the call
\* moves on to the attempt and status checks
TimeoutElapsed(cb, time) ==
    /\ cb.last_failure_time # NoneValue
    /\ cb.last_failure_time # 0
    /\ time - cb.last_failure_time > RecoveryTimeout

\* CircuitBreakerRetry.should_retry: the returned value, the breaker after the
\* call, and whether the call recorded a failure
cb_should_retry(cb, max_attempts, att, status_code, time) ==
    IF cb.state = "OPEN" /\ ~TimeoutElapsed(cb, time)
    THEN [ret |-> FALSE, cb |-> cb, recorded |-> FALSE]
    ELSE LET cb1 == IF cb.state = "OPEN"
                    THEN Breaker("HALF_OPEN", cb.failure_count, cb.last_failure_time)
                    ELSE cb
         IN  IF att >= max_attempts
             THEN [ret |-> FALSE, cb |-> cb_record_failure(cb1, time), recorded |-> TRUE]
             ELSE IF status_code # NoneValue
                  THEN IF status_code \in RETRY_STATUS_CODES
                       THEN [ret |-> TRUE, cb |-> cb1, recorded |-> FALSE]
                       ELSE [ret |-> FALSE, cb |-> cb_record_failure(cb1, time),
                             recorded |-> TRUE]
                  ELSE [ret |-> TRUE, cb |-> cb1, recorded |-> FALSE]

\* record_success that closes a HALF_OPEN breaker without clearing its count
cb_record_success_KeepCount(cb) ==
    IF cb.state = "HALF_OPEN"
    THEN Breaker("CLOSED", cb.failure_count, cb.last_failure_time)
    ELSE IF cb.state = "CLOSED"
         THEN Breaker("CLOSED", Max(0, cb.failure_count - 1), cb.last_failure_time)
         ELSE cb

\* CircuitBreakerRetry.record_success
cb_record_success(cb) ==
    IF cb.state = "HALF_OPEN"
    THEN Breaker("CLOSED", 0, cb.last_failure_time)
    ELSE IF cb.state = "CLOSED"
         THEN Breaker("CLOSED", Max(0, cb.failure_count - 1), cb.last_failure_time)
         ELSE cb

CurrentBreaker == Breaker(state, failure_count, last_failure_time)

\* ExponentialBackoffRetry.get_delay
get_delay(att) ==
    Min(RETRY_INITIAL_DELAY * RETRY_BACKOFF_FACTOR ^ att, RETRY_MAX_DELAY)

\* the delays a policy is constructed with (create_retry_strategy passes
\* RETRY_INITIAL_DELAY as default_delay and RETRY_BACKOFF_FACTOR as
\* server_error_backoff of the adaptive policy)
DelayConfig(initial, factor, max_delay) ==
    [initial_delay |-> initial, backoff_factor |-> factor, max_delay |-> max_delay,
     rate_limit_delay |-> RETRY_RATE_LIMIT_DELAY, forbidden_delay |-> RETRY_FORBIDDEN_DELAY]

\* an exponential policy without the ceiling of max_delay
exponential_get_delay_NoCap(cfg, att) == cfg.initial_delay * cfg.backoff_factor ^ att

\* ExponentialBackoffRetry.get_delay(attempt)
exponential_get_delay(cfg, att) ==
    Min(cfg.initial_delay * cfg.backoff_factor ^ att, cfg.max_delay)

\* AdaptiveRetry.get_delay(attempt, status_code=None)
adaptive_get_delay(cfg, att, status_code) ==
    IF status_code = 429 THEN cfg.rate_limit_delay
    ELSE IF status_code # NoneValue /\ status_code # 0
            /\ 500 <= status_code /\ status_code < 600
    THEN cfg.initial_delay * cfg.backoff_factor ^ att
    ELSE IF status_code = 403 THEN cfg.forbidden_delay
    ELSE cfg.initial_delay

\* IRetryStrategy.get_delay(attempt): the one argument the interface passes
InterfaceGetDelay(kind, cfg, att) ==
    IF kind = "adaptive" THEN adaptive_get_delay(cfg, att, NoneValue)
    ELSE exponential_get_delay(cfg, att)

\* CircuitBreakerRetry.get_delay
cb_get_delay(att) == RETRY_INITIAL_DELAY * 2 ^ att

\* delay = strategy.get_delay(...) as the dispatcher sees it
StrategyGetDelay(att) ==
    IF strategy = "circuit_breaker" THEN cb_get_delay(att) ELSE get_delay(att)

\* strategy.should_retry(context) as the dispatcher sees it
StrategyShouldRetry(att, status_code) ==
    IF strategy = "circuit_breaker"
    THEN cb_should_retry(CurrentBreaker, strategy_max, att, status_code, now)
    ELSE [ret |-> should_retry(strategy_max, att, status_code),
          cb |-> CurrentBreaker, recorded |-> FALSE]

(***************************************************************************)
(* Bounded dispatcher and fetch pipeline (fetchers/details_fetcher.py).    *)
(***************************************************************************)
InputIds == [i \in 1..NumIds |-> i]
Passes == {"first", "retry"}

WindowSize == IF phase = "first" THEN BatchSize ELSE RetryBatchSize
\* ids[i:i + batch_size]
Window(ids, i, size) == SubSeq(ids, i, Min(i + size - 1, Len(ids)))
CurrentWindow == Window(pass_ids, batch_start, WindowSize)
\* fetch operations holding a slot of self.semaphore
InFlight == {id \in Ids : pc[id] = "fetching"}

\* a known HTTP status outside the configured retryable set, such as 404
Terminal(status_code) == status_code # 0 /\ status_code \notin RETRY_STATUS_CODES

\* no call made yet on a policy taken on its own
NoCall ==
    [op |-> "none", kind |-> "exponential", retryable_status_codes |-> {},
     max_attempts |-> MaxAttempts,
     delays |-> DelayConfig(RETRY_INITIAL_DELAY, RETRY_BACKOFF_FACTOR, RETRY_MAX_DELAY),
     attempt |-> 0, status_code |-> NoneValue]

\* what the path can hold before the run: nothing, or the snapshot an earlier
\* run left there
PriorFiles == {NoFile, FileOf(<<FailedRequest(1, "http", 404, 1, 0)>>)}

\* asyncio.Semaphore(value): the counter of free slots; a negative value raises
\* ValueError and the constructor of the driver fails with it (phase and
\* search_pc then read "ValueError")
Semaphore(value) == Max(value, 0)

InitBreaker ==
    /\ state = "CLOSED"
    /\ failure_count = 0
    /\ last_failure_time = NoneValue
    /\ now = StartTime

InitHistory ==
    /\ fetches = [p \in Passes |-> [id \in Ids |-> 0]]
    /\ only_terminal = Ids
    /\ first_ok = {}
    /\ last_op = "init"
    /\ last_ret = FALSE
    /\ before = Breaker("CLOSED", 0, NoneValue)
    /\ consecutive = 0
    /\ last_call = [id \in Ids |-> "none"]
    /\ first_failure = [id \in Ids |-> NoneValue]
    /\ calls = <<>>
    /\ observed_before = [failed_ids |-> <<>>, statistics |-> get_statistics(<<>>, {})]
    /\ file \in (IF run = "ledger" THEN PriorFiles ELSE {NoFile})
    /\ loaded = <<>>
    /\ policy_call = NoCall
    /\ policy_ret = [retry |-> FALSE, delay |-> 0]

InitDispatcher ==
    /\ phase = IF max_concurrent < 0 THEN "ValueError" ELSE "first"
    /\ main_pc = "dispatch"
    /\ pass_ids = InputIds
    /\ batch_start = 1
    /\ pc = [id \in Ids |-> "none"]
    /\ attempt = [id \in Ids |-> 0]
    /\ task_result = [id \in Ids |-> "None"]
    /\ delay = [id \in Ids |-> 0]
    /\ retry_after = [id \in Ids |-> NoneValue]
    /\ semaphore = Semaphore(max_concurrent)
    /\ all_details = <<>>
    /\ retry_results = <<>>
    /\ failed_requests = <<>>
    /\ successful_requests = {}

Pages == 0..(MaxPages - 1)
NoPage == [items |-> NoneValue, pages |-> 0]

InitSearch ==
    /\ search_pc = IF max_concurrent < 0 THEN "ValueError" ELSE "start"
    /\ page_pc = [p \in Pages |-> "none"]
    /\ page_result = [p \in Pages |-> NoPage]
    /\ all_vacancies = <<>>
    /\ total_pages = 0
    /\ page_batch_start = IF run = "sync_search" THEN 0 ELSE 1

\* a details fetcher with an injected policy
InitFetcher ==
    /\ \E p \in Pipelines : run = p[1] /\ strategy = p[2][1] /\ strategy_max = p[2][2]
    /\ script = 0
    /\ max_concurrent = MaxConcurrent
    /\ max_pages = MaxPages
    /\ max_vacancies = 0

\* an async search driver and the arguments of search_async
InitSearcher ==
    /\ run = "search"
    /\ strategy = "exponential"
    /\ strategy_max = MaxAttempts
    /\ script = 0
    /\ max_concurrent = MaxConcurrent
    /\ max_pages \in {MaxPages - 1, MaxPages}
    /\ max_vacancies \in 0..MaxVacancies

Init ==
    /\ InitFetcher \/ InitSearcher
    /\ InitDispatcher
    /\ InitSearch
    /\ InitBreaker
    /\ InitHistory

\* tasks = [self._fetch_with_retry_async(session, vac_id) for vac_id in batch]
StartBatch ==
    /\ run = "async"
    /\ phase \in Passes
    /\ main_pc = "dispatch"
    /\ LET batch == SeqToSet(CurrentWindow)
       IN  /\ pc' = [id \in Ids |-> IF id \in batch THEN "ready" ELSE pc[id]]
           /\ attempt' = [id \in Ids |-> IF id \in batch THEN 1 ELSE attempt[id]]
           /\ task_result' = [id \in Ids |-> IF id \in batch THEN "None" ELSE task_result[id]]
           /\ delay' = [id \in Ids |-> IF id \in batch THEN 0 ELSE delay[id]]
           /\ retry_after' =
                 [id \in Ids |-> IF id \in batch THEN NoneValue ELSE retry_after[id]]
    /\ main_pc' = "gather"
    /\ UNCHANGED <<configVars, phase, pass_ids, batch_start, all_details, retry_results,
                   semaphore, ledgerVars, breakerVars, now, fetches, historyVars>>

\* a fetch issued without waiting for a slot of the semaphore
Acquire_NoSemaphore(id) ==
    /\ run = "async"
    /\ pc[id] = "ready"
    /\ semaphore' = semaphore - 1
    /\ pc' = [pc EXCEPT ![id] = "fetching"]
    /\ fetches' = [fetches EXCEPT ![phase][id] = @ + 1]
    /\ UNCHANGED <<configVars, pipelineVars, attempt, task_result, waitVars, ledgerVars,
                   breakerVars, now, historyVars>>

\* async with self.semaphore: ... session.get(url)
Acquire(id) ==
    /\ run = "async"
    /\ pc[id] = "ready"
    /\ semaphore > 0
    /\ semaphore' = semaphore - 1
    /\ pc' = [pc EXCEPT ![id] = "fetching"]
    /\ fetches' = [fetches EXCEPT ![phase][id] = @ + 1]
    /\ UNCHANGED <<configVars, pipelineVars, attempt, task_result, waitVars, ledgerVars,
                   breakerVars, now, historyVars>>

\* the fetch returned a payload: record_success and return result
FetchSuccess(id) ==
    /\ successful_requests' = AddSuccess(successful_requests, id)
    /\ failed_requests' = RemoveRecord(failed_requests, id)
    /\ task_result' = [task_result EXCEPT ![id] = "payload"]
    /\ pc' = [pc EXCEPT ![id] = "done"]
    /\ UNCHANGED <<attempt, delay, breakerVars>>

\* except HTTPException: ask the policy, then give up or sleep
FetchHTTPError(id, status_code) ==
    LET d == StrategyShouldRetry(attempt[id], status_code)
    IN  /\ state' = d.cb.state
        /\ failure_count' = d.cb.failure_count
        /\ last_failure_time' = d.cb.last_failure_time
        /\ IF ~d.ret
           THEN /\ failed_requests' =
                      record_failure(failed_requests, id, "http", status_code,
                                     attempt[id], now)
                /\ pc' = [pc EXCEPT ![id] = "done"]
                /\ delay' = delay
           ELSE /\ failed_requests' = failed_requests
                /\ pc' = [pc EXCEPT ![id] = "sleeping"]
                /\ delay' = [delay EXCEPT ![id] = StrategyGetDelay(attempt[id])]
        /\ UNCHANGED <<attempt, task_result, successful_requests>>

\* an unexpected exception that leaves the task instead of being recorded
FetchOtherError_Raise(id) ==
    /\ task_result' = [task_result EXCEPT ![id] = "raised"]
    /\ pc' = [pc EXCEPT ![id] = "done"]
    /\ UNCHANGED <<attempt, delay, ledgerVars, breakerVars>>

\* except Exception: record_failure(vacancy_id, str(e), 0, attempt); return None
FetchOtherError(id) ==
    /\ failed_requests' =
          record_failure(failed_requests, id, "exception", 0, attempt[id], now)
    /\ pc' = [pc EXCEPT ![id] = "done"]
    /\ UNCHANGED <<attempt, task_result, delay, successful_requests, breakerVars>>

\* a retry loop that sleeps inside the semaphore block
FetchReturn_HoldSlot(id) ==
    /\ run = "async"
    /\ pc[id] = "fetching"
    /\ \E outcome \in Outcomes :
          \/ /\ outcome = "ok"
             /\ FetchSuccess(id)
             /\ only_terminal' = only_terminal \ {id}
             /\ first_ok' = IF phase = "first" THEN first_ok \cup {id} ELSE first_ok
          \/ /\ outcome = "http"
             /\ \E status_code \in StatusCodes :
                   /\ FetchHTTPError(id, status_code)
                   /\ only_terminal' = IF Terminal(status_code) THEN only_terminal
                                       ELSE only_terminal \ {id}
             /\ first_ok' = first_ok
          \/ /\ outcome = "exception"
             /\ FetchOtherError(id)
             /\ only_terminal' = only_terminal \ {id}
             /\ first_ok' = first_ok
    /\ semaphore' = IF pc'[id] = "sleeping" THEN semaphore ELSE semaphore + 1
    /\ UNCHANGED <<configVars, pipelineVars, retry_after, now, fetches, callVars>>

\* _fetch_single_async leaves the semaphore block with a payload or an error
FetchReturn(id) ==
    /\ run = "async"
    /\ pc[id] = "fetching"
    /\ semaphore' = semaphore + 1
    /\ \E outcome \in Outcomes :
          \/ /\ outcome = "ok"
             /\ FetchSuccess(id)
             /\ only_terminal' = only_terminal \ {id}
             /\ first_ok' = IF phase = "first" THEN first_ok \cup {id} ELSE first_ok
          \/ /\ outcome = "http"
             /\ \E status_code \in StatusCodes :
                   /\ FetchHTTPError(id, status_code)
                   /\ only_terminal' = IF Terminal(status_code) THEN only_terminal
                                       ELSE only_terminal \ {id}
             /\ first_ok' = first_ok
          \/ /\ outcome = "exception"
             /\ FetchOtherError(id)
             /\ only_terminal' = only_terminal \ {id}
             /\ first_ok' = first_ok
    /\ UNCHANGED <<configVars, pipelineVars, retry_after, now, fetches, callVars>>

\* a fetch answered by the scripted server: a retryable status for the
\* attempts 1..script of the identifier, the payload from attempt script + 1 on
FetchScripted(id) ==
    /\ run = "async"
    /\ script > 0
    /\ pc[id] = "fetching"
    /\ semaphore' = semaphore + 1
    /\ IF attempt[id] <= script
       THEN /\ \E status_code \in StatusCodes \cap RETRY_STATUS_CODES :
                  FetchHTTPError(id, status_code)
            /\ only_terminal' = only_terminal \ {id}
            /\ first_ok' = first_ok
       ELSE /\ FetchSuccess(id)
            /\ only_terminal' = only_terminal \ {id}
            /\ first_ok' = IF phase = "first" THEN first_ok \cup {id} ELSE first_ok
    /\ UNCHANGED <<configVars, pipelineVars, retry_after, now, fetches, callVars>>

\* the response is a 429: retry_after is read from the Retry-After header and
\* goes into the message of the HTTPException, which carries the status
FetchRateLimited(id) ==
    /\ run = "async"
    /\ pc[id] = "fetching"
    /\ semaphore' = semaphore + 1
    /\ \E header \in RetryAfterHeaders :
          retry_after' = [retry_after EXCEPT ![id] = header]
    /\ FetchHTTPError(id, 429)
    /\ UNCHANGED <<configVars, pipelineVars, now, fetches, only_terminal, first_ok,
                   callVars>>

\* a retry loop that never counts its attempts
Wake_SameAttempt(id) ==
    /\ run \in {"async", "sync"}
    /\ pc[id] = "sleeping"
    /\ pc' = [pc EXCEPT ![id] = "ready"]
    /\ delay' = [delay EXCEPT ![id] = 0]
    /\ retry_after' = [retry_after EXCEPT ![id] = NoneValue]
    /\ UNCHANGED <<configVars, pipelineVars, attempt, task_result, semaphore, ledgerVars,
                   breakerVars, now, fetches, historyVars>>

\* a retry loop that runs one iteration too many
Wake_OneMore(id) ==
    /\ run \in {"async", "sync"}
    /\ pc[id] = "sleeping"
    /\ IF attempt[id] <= MaxAttempts
       THEN /\ attempt' = [attempt EXCEPT ![id] = @ + 1]
            /\ pc' = [pc EXCEPT ![id] = "ready"]
            /\ failed_requests' = failed_requests
       ELSE /\ failed_requests' =
                  record_failure(failed_requests, id, "attempts", 0, MaxAttempts, now)
            /\ pc' = [pc EXCEPT ![id] = "done"]
            /\ attempt' = attempt
    /\ delay' = [delay EXCEPT ![id] = 0]
    /\ retry_after' = [retry_after EXCEPT ![id] = NoneValue]
    /\ UNCHANGED <<configVars, pipelineVars, task_result, semaphore, successful_requests,
                   breakerVars, now, fetches, historyVars>>

\* await asyncio.sleep(delay) is over: next iteration of the for loop, or the
\* code after the loop when range(1, max_attempts + 1) is exhausted
Wake(id) ==
    /\ run \in {"async", "sync"}
    /\ pc[id] = "sleeping"
    /\ IF attempt[id] < MaxAttempts
       THEN /\ attempt' = [attempt EXCEPT ![id] = @ + 1]
            /\ pc' = [pc EXCEPT ![id] = "ready"]
            /\ failed_requests' = failed_requests
       ELSE /\ failed_requests' =
                  record_failure(failed_requests, id, "attempts", 0, MaxAttempts, now)
            /\ pc' = [pc EXCEPT ![id] = "done"]
            /\ attempt' = attempt
    /\ delay' = [delay EXCEPT ![id] = 0]
    /\ retry_after' = [retry_after EXCEPT ![id] = NoneValue]
    /\ UNCHANGED <<configVars, pipelineVars, task_result, semaphore, successful_requests,
                   breakerVars, now, fetches, historyVars>>

\* a pipeline that re-drives again while the ledger still holds failures
FinishBatch_Again ==
    /\ run = "async"
    /\ phase # "done"
    /\ main_pc = "gather"
    /\ \A id \in SeqToSet(CurrentWindow) : pc[id] = "done"
    /\ LET batch_details == SelectSeq(CurrentWindow, LAMBDA id : task_result[id] = "payload")
           more == batch_start + WindowSize <= Len(pass_ids)
           failed_ids == get_failed_ids(failed_requests)
       IN  /\ pc' = [id \in Ids |-> "none"]
           /\ IF more
              THEN /\ batch_start' = batch_start + WindowSize
                   /\ main_pc' = "dispatch"
                   /\ UNCHANGED <<phase, pass_ids>>
                   /\ IF phase = "first"
                      THEN /\ all_details' = all_details \o batch_details
                           /\ retry_results' = retry_results
                      ELSE /\ retry_results' = retry_results \o batch_details
                           /\ all_details' = all_details
              ELSE IF phase = "first"
                   THEN /\ all_details' = all_details \o batch_details
                        /\ retry_results' = retry_results
                        /\ IF failed_ids # <<>>
                           THEN /\ phase' = "retry"
                                /\ pass_ids' = failed_ids
                                /\ batch_start' = 1
                                /\ main_pc' = "dispatch"
                           ELSE /\ phase' = "done"
                                /\ UNCHANGED <<pass_ids, batch_start, main_pc>>
                   ELSE /\ retry_results' = retry_results \o batch_details
                        /\ IF failed_ids # <<>>
                           THEN /\ all_details' = all_details
                                /\ pass_ids' = failed_ids
                                /\ batch_start' = 1
                                /\ main_pc' = "dispatch"
                                /\ phase' = phase
                           ELSE /\ all_details' = all_details \o retry_results'
                                /\ phase' = "done"
                                /\ UNCHANGED <<pass_ids, batch_start, main_pc>>
    /\ UNCHANGED <<configVars, attempt, task_result, waitVars, semaphore, ledgerVars,
                   breakerVars, now, fetches, historyVars>>

\* results = await asyncio.gather(*tasks, return_exceptions=True), the rest of
\* the loop body and, after the last window, the end of the pass
FinishBatch ==
    /\ run = "async"
    /\ phase # "done"
    /\ main_pc = "gather"
    /\ \A id \in SeqToSet(CurrentWindow) : pc[id] = "done"
    /\ LET batch_details == SelectSeq(CurrentWindow, LAMBDA id : task_result[id] = "payload")
           more == batch_start + WindowSize <= Len(pass_ids)
           failed_ids == get_failed_ids(failed_requests)
       IN  /\ pc' = [id \in Ids |-> "none"]
           /\ IF more
              THEN /\ batch_start' = batch_start + WindowSize
                   /\ main_pc' = "dispatch"
                   /\ UNCHANGED <<phase, pass_ids>>
                   /\ IF phase = "first"
                      THEN /\ all_details' = all_details \o batch_details
                           /\ retry_results' = retry_results
                      ELSE /\ retry_results' = retry_results \o batch_details
                           /\ all_details' = all_details
              ELSE IF phase = "first"
                   THEN /\ all_details' = all_details \o batch_details
                        /\ retry_results' = retry_results
                        /\ IF failed_ids # <<>>
                           THEN /\ phase' = "retry"
                                /\ pass_ids' = failed_ids
                                /\ batch_start' = 1
                                /\ main_pc' = "dispatch"
                           ELSE /\ phase' = "done"
                                /\ UNCHANGED <<pass_ids, batch_start, main_pc>>
                   ELSE /\ retry_results' = retry_results \o batch_details
                        /\ all_details' = all_details \o retry_results'
                        /\ phase' = "done"
                        /\ UNCHANGED <<pass_ids, batch_start, main_pc>>
    /\ UNCHANGED <<configVars, attempt, task_result, waitVars, semaphore, ledgerVars,
                   breakerVars, now, fetches, historyVars>>

\* time.time() advances.  Only an OPEN breaker reads the clock, and only to
\* compare it with last_failure_time + recovery_timeout, so the run lets time
\* pass while that comparison can still change.
Tick ==
    /\ run \in {"async", "sync"}
    /\ strategy = "circuit_breaker"
    /\ phase # "done"
    /\ state = "OPEN"
    /\ ~TimeoutElapsed(CurrentBreaker, now)
    /\ now' = now + 1
    /\ UNCHANGED <<configVars, pipelineVars, taskVars, ledgerVars, breakerVars,
                   fetches, historyVars>>

(***************************************************************************)
(* SyncVacancyDetailsFetcher: the same loop, one identifier at a time.     *)
(* batch_start is the position of the for loop in the list of the pass.    *)
(***************************************************************************)
CurrentId == pass_ids[batch_start]

\* the status carried by the HTTPException of _fetch_single: a retryable
\* status is raised as it is; for any other error status raise_for_status
\* raises an HTTPError whose response is falsy, so the status becomes 0
SyncStatus(status_code) ==
    IF status_code \in RETRY_STATUS_CODES THEN status_code ELSE 0

\* details = self._fetch_with_retry(vacancy_id)
SyncCall ==
    /\ run = "sync"
    /\ phase # "done"
    /\ main_pc = "dispatch"
    /\ pc' = [pc EXCEPT ![CurrentId] = "ready"]
    /\ attempt' = [attempt EXCEPT ![CurrentId] = 1]
    /\ task_result' = [task_result EXCEPT ![CurrentId] = "None"]
    /\ delay' = [delay EXCEPT ![CurrentId] = 0]
    /\ main_pc' = "gather"
    /\ UNCHANGED <<configVars, phase, pass_ids, batch_start, all_details, retry_results,
                   retry_after, semaphore, ledgerVars, breakerVars, now, fetches,
                   historyVars>>

\* one iteration of the for loop of _fetch_with_retry up to its return or sleep
SyncFetch(id) ==
    /\ run = "sync"
    /\ pc[id] = "ready"
    /\ fetches' = [fetches EXCEPT ![phase][id] = @ + 1]
    /\ \E outcome \in Outcomes :
          \/ /\ outcome = "ok"
             /\ task_result' = [task_result EXCEPT ![id] = "payload"]
             /\ pc' = [pc EXCEPT ![id] = "done"]
             /\ only_terminal' = only_terminal \ {id}
             /\ first_ok' = IF phase = "first" THEN first_ok \cup {id} ELSE first_ok
             /\ UNCHANGED <<attempt, delay, ledgerVars, breakerVars>>
          \/ /\ outcome = "http"
             /\ \E status_code \in StatusCodes :
                   /\ FetchHTTPError(id, SyncStatus(status_code))
                   /\ only_terminal' = IF Terminal(status_code) THEN only_terminal
                                       ELSE only_terminal \ {id}
             /\ first_ok' = first_ok
          \/ /\ outcome = "exception"
             /\ FetchOtherError(id)
             /\ only_terminal' = only_terminal \ {id}
             /\ first_ok' = first_ok
    /\ UNCHANGED <<configVars, pipelineVars, retry_after, semaphore, now, callVars>>

\* one iteration of the for loop of _fetch_with_retry against the scripted server
SyncFetchScripted(id) ==
    /\ run = "sync"
    /\ script > 0
    /\ pc[id] = "ready"
    /\ fetches' = [fetches EXCEPT ![phase][id] = @ + 1]
    /\ IF attempt[id] <= script
       THEN /\ \E status_code \in StatusCodes \cap RETRY_STATUS_CODES :
                  FetchHTTPError(id, SyncStatus(status_code))
            /\ only_terminal' = only_terminal \ {id}
            /\ first_ok' = first_ok
       ELSE /\ task_result' = [task_result EXCEPT ![id] = "payload"]
            /\ pc' = [pc EXCEPT ![id] = "done"]
            /\ only_terminal' = only_terminal \ {id}
            /\ first_ok' = IF phase = "first" THEN first_ok \cup {id} ELSE first_ok
            /\ UNCHANGED <<attempt, delay, ledgerVars, breakerVars>>
    /\ UNCHANGED <<configVars, pipelineVars, retry_after, semaphore, now, callVars>>

\* back in fetch_details or _retry_failed_requests: "if details:", the next
\* identifier and, after the last one, the end of the pass
SyncReturn ==
    /\ run = "sync"
    /\ phase # "done"
    /\ main_pc = "gather"
    /\ pc[CurrentId] = "done"
    /\ LET id == CurrentId
           details == task_result[id] = "payload"
           got == IF details THEN <<id>> ELSE <<>>
           more == batch_start < Len(pass_ids)
           ledger == IF details /\ phase = "first"
                     THEN RemoveRecord(failed_requests, id)
                     ELSE failed_requests
           failed_ids == get_failed_ids(ledger)
       IN  /\ pc' = [pc EXCEPT ![id] = "none"]
           /\ failed_requests' = ledger
           /\ successful_requests' = IF details /\ phase = "first"
                                     THEN AddSuccess(successful_requests, id)
                                     ELSE successful_requests
           /\ IF more
              THEN /\ batch_start' = batch_start + 1
                   /\ main_pc' = "dispatch"
                   /\ UNCHANGED <<phase, pass_ids>>
                   /\ IF phase = "first"
                      THEN /\ all_details' = all_details \o got
                           /\ retry_results' = retry_results
                      ELSE /\ retry_results' = retry_results \o got
                           /\ all_details' = all_details
              ELSE IF phase = "first"
                   THEN /\ all_details' = all_details \o got
                        /\ retry_results' = retry_results
                        /\ IF failed_ids # <<>>
                           THEN /\ phase' = "retry"
                                /\ pass_ids' = failed_ids
                                /\ batch_start' = 1
                                /\ main_pc' = "dispatch"
                           ELSE /\ phase' = "done"
                                /\ UNCHANGED <<pass_ids, batch_start, main_pc>>
                   ELSE /\ retry_results' = retry_results \o got
                        /\ all_details' = all_details \o retry_results'
                        /\ phase' = "done"
                        /\ UNCHANGED <<pass_ids, batch_start, main_pc>>
    /\ UNCHANGED <<configVars, attempt, task_result, waitVars, semaphore, breakerVars,
                   now, fetches, historyVars>>

(***************************************************************************)
(* Paginated search driver (fetchers/searcher.py, AsyncVacancySearcher).   *)
(***************************************************************************)
\* a page answers with 1..per_page items and its declared page count, or the
\* fetch fails and _fetch_page returns None
PageResponses(p) ==
    {NoPage} \cup
    [items : 1..PerPage, pages : IF p = 0 THEN 1..MaxPages ELSE {0}]

ItemsOf(p) == [k \in 1..Max(0, page_result[p].items) |-> <<p, k>>]
\* all_vacancies[:max_vacancies]
Truncate(items, n) == SubSeq(items, 1, Min(n, Len(items)))
PagesInFlight == {p \in Pages : page_pc[p] = "fetching"}
\* range(page_batch_start, page_batch_end)
PageWindow == page_batch_start..(Min(page_batch_start + SearchBatchSize, total_pages) - 1)

RECURSIVE ExtendPages(_, _, _)
\* for result in results: all_vacancies.extend(result['items'])
ExtendPages(items, p, last) ==
    IF p > last THEN items ELSE ExtendPages(items \o ItemsOf(p), p + 1, last)

\* first_response = await self._fetch_page(session, query, area, 0)
SearchStart ==
    /\ run = "search"
    /\ search_pc = "start"
    /\ page_pc' = [page_pc EXCEPT ![0] = "ready"]
    /\ search_pc' = "first"
    /\ UNCHANGED <<policyVars, searchArgs, page_result, all_vacancies, total_pages,
                   page_batch_start, pipelineVars, taskVars, ledgerVars, breakerVars,
                   now, fetches, historyVars>>

\* async with self.semaphore: ... session.get(...)
PageAcquire(p) ==
    /\ run = "search"
    /\ page_pc[p] = "ready"
    /\ semaphore > 0
    /\ semaphore' = semaphore - 1
    /\ page_pc' = [page_pc EXCEPT ![p] = "fetching"]
    /\ UNCHANGED <<policyVars, searchArgs, search_pc, page_result, all_vacancies,
                   total_pages, page_batch_start, pipelineVars, pc, attempt, task_result,
                   waitVars, ledgerVars, breakerVars, now, fetches, historyVars>>

\* _fetch_page leaves the semaphore block with the page or with None
PageReturn(p) ==
    /\ run = "search"
    /\ page_pc[p] = "fetching"
    /\ \E r \in PageResponses(p) : page_result' = [page_result EXCEPT ![p] = r]
    /\ page_pc' = [page_pc EXCEPT ![p] = "done"]
    /\ semaphore' = semaphore + 1
    /\ UNCHANGED <<policyVars, searchArgs, search_pc, all_vacancies, total_pages,
                   page_batch_start, pipelineVars, pc, attempt, task_result, waitVars,
                   ledgerVars, breakerVars, now, fetches, historyVars>>

\* search_async from the first response to the first window
SearchFirstDone ==
    /\ run = "search"
    /\ search_pc = "first"
    /\ page_pc[0] = "done"
    /\ IF page_result[0] = NoPage
       THEN /\ all_vacancies' = <<>>
            /\ search_pc' = "done"
            /\ UNCHANGED <<total_pages, page_batch_start>>
       ELSE LET pages == Min(Min(page_result[0].pages, max_pages), PageCap)
            IN  /\ total_pages' = pages
                /\ IF pages <= 1
                   THEN /\ all_vacancies' =
                              IF max_vacancies # 0 /\ Len(ItemsOf(0)) > max_vacancies
                              THEN Truncate(ItemsOf(0), max_vacancies)
                              ELSE ItemsOf(0)
                        /\ search_pc' = "done"
                        /\ UNCHANGED page_batch_start
                   ELSE /\ all_vacancies' = ItemsOf(0)
                        /\ search_pc' = "dispatch"
                        /\ page_batch_start' = 1
    /\ UNCHANGED <<policyVars, searchArgs, page_pc, page_result, pipelineVars, taskVars,
                   ledgerVars, breakerVars, now, fetches, historyVars>>

\* batch_tasks = [self._fetch_page(session, query, area, page) for page in ...]
SearchStartWindow ==
    /\ run = "search"
    /\ search_pc = "dispatch"
    /\ page_pc' = [p \in Pages |-> IF p \in PageWindow THEN "ready" ELSE page_pc[p]]
    /\ search_pc' = "gather"
    /\ UNCHANGED <<policyVars, searchArgs, page_result, all_vacancies, total_pages,
                   page_batch_start, pipelineVars, taskVars, ledgerVars, breakerVars,
                   now, fetches, historyVars>>

\* a loop body without the check of the limit
SearchFinishWindow_NoLimit ==
    /\ run = "search"
    /\ search_pc = "gather"
    /\ \A p \in PageWindow : page_pc[p] = "done"
    /\ LET page_batch_end == Min(page_batch_start + SearchBatchSize, total_pages)
       IN  all_vacancies' = ExtendPages(all_vacancies, page_batch_start, page_batch_end - 1)
    /\ IF page_batch_start + SearchBatchSize < total_pages
       THEN /\ page_batch_start' = page_batch_start + SearchBatchSize
            /\ search_pc' = "dispatch"
       ELSE /\ search_pc' = "done"
            /\ UNCHANGED page_batch_start
    /\ UNCHANGED <<policyVars, searchArgs, page_pc, page_result, total_pages,
                   pipelineVars, taskVars, ledgerVars, breakerVars, now, fetches,
                   historyVars>>

\* results = await asyncio.gather(*batch_tasks) and the rest of the loop body
SearchFinishWindow ==
    /\ run = "search"
    /\ search_pc = "gather"
    /\ \A p \in PageWindow : page_pc[p] = "done"
    /\ LET page_batch_end == Min(page_batch_start + SearchBatchSize, total_pages)
           items == ExtendPages(all_vacancies, page_batch_start, page_batch_end - 1)
       IN  IF max_vacancies # 0 /\ Len(items) >= max_vacancies
           THEN /\ all_vacancies' = Truncate(items, max_vacancies)
                /\ search_pc' = "done"
                /\ UNCHANGED page_batch_start
           ELSE /\ all_vacancies' = items
                /\ IF page_batch_start + SearchBatchSize < total_pages
                   THEN /\ page_batch_start' = page_batch_start + SearchBatchSize
                        /\ search_pc' = "dispatch"
                   ELSE /\ search_pc' = "done"
                        /\ UNCHANGED page_batch_start
    /\ UNCHANGED <<policyVars, searchArgs, page_pc, page_result, total_pages,
                   pipelineVars, taskVars, ledgerVars, breakerVars, now, fetches,
                   historyVars>>

Next ==
    \/ StartBatch
    \/ \E id \in Ids : Acquire(id)
    \/ \E id \in Ids : FetchReturn(id)
    \/ \E id \in Ids : Wake(id)
    \/ FinishBatch
    \/ SearchStart
    \/ \E p \in Pages : PageAcquire(p)
    \/ \E p \in Pages : PageReturn(p)
    \/ SearchFirstDone
    \/ SearchStartWindow
    \/ SearchFinishWindow

Spec == Init /\ [][Next]_vars

(***************************************************************************)
(* SyncVacancySearcher.search: one page per iteration of the loop.         *)
(***************************************************************************)
\* an exception or a body without 'items' (both break the loop), or a page
SyncPageResponses == {NoPage} \cup [items : 1..PerPage, pages : 1..MaxPages]

\* one iteration of for page in range(max_pages)
SyncSearchPage ==
    /\ run = "sync_search"
    /\ search_pc = "start"
    /\ page_batch_start < max_pages
    /\ LET page == page_batch_start
       IN  \E data \in SyncPageResponses :
              /\ page_result' = [page_result EXCEPT ![page] = data]
              /\ page_pc' = [page_pc EXCEPT ![page] = "done"]
              /\ IF data = NoPage
                 THEN /\ search_pc' = "done"
                      /\ UNCHANGED <<all_vacancies, page_batch_start>>
                 ELSE LET vacancies ==
                              all_vacancies \o [k \in 1..data.items |-> <<page, k>>]
                      IN  IF max_vacancies # 0 /\ Len(vacancies) >= max_vacancies
                          THEN /\ all_vacancies' = Truncate(vacancies, max_vacancies)
                               /\ search_pc' = "done"
                               /\ UNCHANGED page_batch_start
                          ELSE /\ all_vacancies' = vacancies
                               /\ IF page >= data.pages - 1 \/ page + 1 >= max_pages
                                  THEN /\ search_pc' = "done"
                                       /\ UNCHANGED page_batch_start
                                  ELSE /\ page_batch_start' = page + 1
                                       /\ UNCHANGED search_pc
    /\ UNCHANGED <<policyVars, searchArgs, total_pages, pipelineVars, taskVars,
                   ledgerVars, breakerVars, now, fetches, historyVars>>

(***************************************************************************)
(* The search drivers on their own, for every max_pages and max_vacancies. *)
(***************************************************************************)
InitSearchRun ==
    /\ run \in {"search", "sync_search"}
    /\ strategy = "exponential"
    /\ strategy_max = MaxAttempts
    /\ script = 0
    /\ max_concurrent = MaxConcurrent
    /\ max_pages \in 1..MaxPages
    /\ max_vacancies \in 0..MaxVacancies
    /\ InitDispatcher
    /\ InitSearch
    /\ InitBreaker
    /\ InitHistory

NextSearchRun ==
    \/ SearchStart
    \/ \E p \in Pages : PageAcquire(p)
    \/ \E p \in Pages : PageReturn(p)
    \/ SearchFirstDone
    \/ SearchStartWindow
    \/ SearchFinishWindow
    \/ SyncSearchPage

SpecSearch == InitSearchRun /\ [][NextSearchRun]_vars

(***************************************************************************)
(* The asynchronous drivers constructed with any max_concurrent, the       *)
(* non-positive ones included.                                             *)
(***************************************************************************)
Ceilings == (-1)..MaxConcurrent

InitCeiling ==
    /\ run \in {"async", "search"}
    /\ strategy = "exponential"
    /\ strategy_max = MaxAttempts
    /\ script = 0
    /\ max_concurrent \in Ceilings
    /\ max_pages = MaxPages
    /\ max_vacancies = 0
    /\ InitDispatcher
    /\ InitSearch
    /\ InitBreaker
    /\ InitHistory

NextCeiling ==
    \/ StartBatch
    \/ \E id \in Ids : Acquire(id)
    \/ \E id \in Ids : FetchReturn(id)
    \/ \E id \in Ids : Wake(id)
    \/ FinishBatch
    \/ SearchStart
    \/ \E p \in Pages : PageAcquire(p)
    \/ \E p \in Pages : PageReturn(p)
    \/ SearchFirstDone
    \/ SearchStartWindow
    \/ SearchFinishWindow

SpecCeiling == InitCeiling /\ [][NextCeiling]_vars

(***************************************************************************)
(* The stateless policies on their own: a policy of any kind, constructed  *)
(* with any configuration, is asked should_retry or get_delay.             *)
(***************************************************************************)
StatelessPolicies == {"exponential", "linear", "fibonacci", "jitter", "adaptive"}
\* retryable_status_codes as the caller passes it to the constructor
ConfiguredCodes == {{}, {500}, RETRY_STATUS_CODES}
\* status of the failure a context carries; NoneValue when none is known
ContextStatusCodes == {NoneValue, 0, 403, 404, 429, 500}
DelayConfigs ==
    {DelayConfig(i, f, m) : i \in {0, 1, RETRY_INITIAL_DELAY},
                            f \in {1, RETRY_BACKOFF_FACTOR},
                            m \in {ShortMaxDelay, RETRY_MAX_DELAY}}

InitPolicy ==
    /\ run = "policy"
    /\ strategy = "exponential"
    /\ strategy_max = MaxAttempts
    /\ script = 0
    /\ max_concurrent = MaxConcurrent
    /\ max_pages = MaxPages
    /\ max_vacancies = 0
    /\ InitDispatcher
    /\ InitSearch
    /\ InitBreaker
    /\ InitHistory

\* strategy.should_retry(context)
PolicyShouldRetry ==
    /\ run = "policy"
    /\ \E kind \in StatelessPolicies, configured \in ConfiguredCodes,
          max_attempts \in 1..MaxAttempts, att \in 1..(MaxAttempts + 1),
          status_code \in ContextStatusCodes :
          /\ policy_call' =
                [NoCall EXCEPT !.op = "should_retry", !.kind = kind,
                               !.retryable_status_codes = configured,
                               !.max_attempts = max_attempts,
                               !.attempt = att, !.status_code = status_code]
          /\ policy_ret' =
                [retry |-> policy_should_retry(RetryableCodes(configured), max_attempts,
                                               att, status_code),
                 delay |-> 0]
    /\ UNCHANGED <<run, strategy, strategy_max, script, max_concurrent, searchVars,
                   pipelineVars, taskVars, ledgerVars, breakerVars, now, fetches,
                   historyVars>>

\* strategy.get_delay(attempt) after a failure of status status_code
PolicyGetDelay ==
    /\ run = "policy"
    /\ \E kind \in {"exponential", "adaptive"}, cfg \in DelayConfigs,
          att \in 0..(MaxAttempts + 1), status_code \in ContextStatusCodes :
          /\ policy_call' =
                [NoCall EXCEPT !.op = "get_delay", !.kind = kind, !.delays = cfg,
                               !.attempt = att, !.status_code = status_code]
          /\ policy_ret' = [retry |-> TRUE, delay |-> InterfaceGetDelay(kind, cfg, att)]
    /\ UNCHANGED <<run, strategy, strategy_max, script, max_concurrent, searchVars,
                   pipelineVars, taskVars, ledgerVars, breakerVars, now, fetches,
                   historyVars>>

NextPolicy ==
    \/ PolicyShouldRetry
    \/ PolicyGetDelay

SpecPolicy == InitPolicy /\ [][NextPolicy]_vars

(***************************************************************************)
(* The asynchronous fetcher with an injected stateless policy whose own    *)
(* budget is larger than the max_attempts of the fetcher.                  *)
(***************************************************************************)
InitInjected ==
    /\ run = "async"
    /\ strategy = "exponential"
    /\ strategy_max = MaxAttempts + 1
    /\ script = 0
    /\ max_concurrent = MaxConcurrent
    /\ max_pages = MaxPages
    /\ max_vacancies = 0
    /\ InitDispatcher
    /\ InitSearch
    /\ InitBreaker
    /\ InitHistory

NextInjected ==
    \/ StartBatch
    \/ \E id \in Ids : Acquire(id)
    \/ \E id \in Ids : FetchReturn(id)
    \/ \E id \in Ids : Wake(id)
    \/ FinishBatch

SpecInjected == InitInjected /\ [][NextInjected]_vars

(***************************************************************************)
(* The asynchronous fetcher under a fair scheduler: the event loop runs a  *)
(* step whenever one can be taken, so every fetch under way returns and    *)
(* every sleep ends.                                                       *)
(***************************************************************************)
SpecFair == InitInjected /\ [][NextInjected]_vars /\ WF_vars(NextInjected)

(***************************************************************************)
(* The synchronous fetcher with every policy.                              *)
(***************************************************************************)
InitSync ==
    /\ \E p \in SyncPipelines : run = p[1] /\ strategy = p[2][1] /\ strategy_max = p[2][2]
    /\ script = 0
    /\ max_concurrent = MaxConcurrent
    /\ max_pages = MaxPages
    /\ max_vacancies = 0
    /\ InitDispatcher
    /\ InitSearch
    /\ InitBreaker
    /\ InitHistory

NextSync ==
    \/ SyncCall
    \/ \E id \in Ids : SyncFetch(id)
    \/ SyncReturn
    \/ Tick

SpecSync == InitSync /\ [][NextSync]_vars

(***************************************************************************)
(* The asynchronous fetcher with the circuit breaker as its policy.        *)
(***************************************************************************)
InitBreakerRun ==
    /\ run = "async"
    /\ strategy = "circuit_breaker"
    /\ strategy_max = MaxAttempts
    /\ script = 0
    /\ max_concurrent = MaxConcurrent
    /\ max_pages = MaxPages
    /\ max_vacancies = 0
    /\ InitDispatcher
    /\ InitSearch
    /\ InitBreaker
    /\ InitHistory

NextBreakerRun ==
    \/ StartBatch
    \/ \E id \in Ids : Acquire(id)
    \/ \E id \in Ids : FetchReturn(id)
    \/ \E id \in Ids : Wake(id)
    \/ FinishBatch
    \/ Tick

SpecBreakerRun == InitBreakerRun /\ [][NextBreakerRun]_vars

(***************************************************************************)
(* The asynchronous fetcher in front of a rate-limiting server: beside the *)
(* answers of FetchReturn, a fetch can be answered 429.                    *)
(***************************************************************************)
InitRateLimit ==
    /\ run = "async"
    /\ strategy = "exponential"
    /\ strategy_max = MaxAttempts
    /\ script = 0
    /\ max_concurrent = MaxConcurrent
    /\ max_pages = MaxPages
    /\ max_vacancies = 0
    /\ InitDispatcher
    /\ InitSearch
    /\ InitBreaker
    /\ InitHistory

NextRateLimit ==
    \/ StartBatch
    \/ \E id \in Ids : Acquire(id)
    \/ \E id \in Ids : FetchReturn(id)
    \/ \E id \in Ids : FetchRateLimited(id)
    \/ \E id \in Ids : Wake(id)
    \/ FinishBatch

SpecRateLimit == InitRateLimit /\ [][NextRateLimit]_vars

(***************************************************************************)
(* Either fetcher in front of a scripted server: every identifier fails    *)
(* its first k attempts with a retryable status and is answered from       *)
(* attempt k + 1 on, for a k with 1 <= k < max_attempts.                   *)
(***************************************************************************)
InitScripted ==
    /\ run \in {"async", "sync"}
    /\ \E cfg \in Configurations : strategy = cfg[1] /\ strategy_max = cfg[2]
    /\ script \in 1..(MaxAttempts - 1)
    /\ max_concurrent = MaxConcurrent
    /\ max_pages = MaxPages
    /\ max_vacancies = 0
    /\ InitDispatcher
    /\ InitSearch
    /\ InitBreaker
    /\ InitHistory

NextScripted ==
    \/ StartBatch
    \/ \E id \in Ids : Acquire(id)
    \/ \E id \in Ids : FetchScripted(id)
    \/ \E id \in Ids : Wake(id)
    \/ FinishBatch
    \/ SyncCall
    \/ \E id \in Ids : SyncFetchScripted(id)
    \/ SyncReturn

SpecScripted == InitScripted /\ [][NextScripted]_vars

(***************************************************************************)
(* The circuit breaker on its own: any sequence of should_retry and        *)
(* record_success calls and clock advances.                                *)
(***************************************************************************)
Contexts == (1..MaxAttempts) \X (StatusCodes \cup {NoneValue})

InitCB ==
    /\ run = "breaker"
    /\ strategy = "circuit_breaker"
    /\ strategy_max = MaxAttempts
    /\ script = 0
    /\ max_concurrent = MaxConcurrent
    /\ max_pages = MaxPages
    /\ max_vacancies = 0
    /\ InitDispatcher
    /\ InitSearch
    /\ InitBreaker
    /\ InitHistory

\* strategy.should_retry(context)
CBShouldRetry ==
    /\ run = "breaker"
    /\ \E ctx \in Contexts :
          LET d == cb_should_retry(CurrentBreaker, strategy_max, ctx[1], ctx[2], now)
          IN  /\ d.recorded => failure_count < MaxFailureCount
              /\ state' = d.cb.state
              /\ failure_count' = d.cb.failure_count
              /\ last_failure_time' = d.cb.last_failure_time
              /\ last_ret' = d.ret
              /\ consecutive' = IF d.recorded THEN consecutive + 1 ELSE consecutive
    /\ last_op' = "should_retry"
    /\ before' = CurrentBreaker
    /\ UNCHANGED <<configVars, pipelineVars, taskVars, ledgerVars, now, fetches,
                   only_terminal, first_ok, ledgerHistory>>

\* strategy.record_success()
CBRecordSuccess ==
    /\ run = "breaker"
    /\ LET cb == cb_record_success(CurrentBreaker)
       IN  /\ state' = cb.state
           /\ failure_count' = cb.failure_count
           /\ last_failure_time' = cb.last_failure_time
    /\ last_op' = "record_success"
    /\ before' = CurrentBreaker
    /\ consecutive' = 0
    /\ UNCHANGED <<configVars, pipelineVars, taskVars, ledgerVars, now, fetches,
                   only_terminal, first_ok, last_ret, ledgerHistory>>

\* time.time() advances between two calls
CBTick ==
    /\ run = "breaker"
    /\ now < MaxTime
    /\ now' = now + 1
    /\ last_op' = "tick"
    /\ before' = CurrentBreaker
    /\ UNCHANGED <<configVars, pipelineVars, taskVars, ledgerVars, breakerVars, fetches,
                   only_terminal, first_ok, last_ret, consecutive, ledgerHistory>>

NextCB ==
    \/ CBShouldRetry
    \/ CBRecordSuccess
    \/ CBTick

SpecCB == InitCB /\ [][NextCB]_vars

(***************************************************************************)
(* The failure ledger on its own: any sequence of record_failure,          *)
(* record_success, save_failed_to_file and load_failed_from_file calls,    *)
(* each at a later instant than the one before.                            *)
(***************************************************************************)
\* (error, status_code, attempt) as the fetchers pass them to record_failure
FailureArgs == {<<"http", 404, 1>>, <<"attempts", 0, MaxAttempts>>}

Observation ==
    [failed_ids |-> get_failed_ids(failed_requests),
     statistics |-> get_statistics(failed_requests, successful_requests)]

\* the last two calls after one more
LastTwo(cs, c) == IF cs = <<>> THEN <<c>> ELSE <<cs[Len(cs)], c>>

InitLedger ==
    /\ run = "ledger"
    /\ strategy = "exponential"
    /\ strategy_max = MaxAttempts
    /\ script = 0
    /\ max_concurrent = MaxConcurrent
    /\ max_pages = MaxPages
    /\ max_vacancies = 0
    /\ InitDispatcher
    /\ InitSearch
    /\ InitBreaker
    /\ InitHistory

\* error_tracker.record_failure(vacancy_id, error, status_code, attempt)
LedgerRecordFailure ==
    /\ run = "ledger"
    /\ now < MaxTime
    /\ \E id \in Ids : \E args \in FailureArgs :
          /\ failed_requests' =
                record_failure(failed_requests, id, args[1], args[2], args[3], now)
          /\ last_call' = [last_call EXCEPT ![id] = "record_failure"]
          /\ first_failure' = [first_failure EXCEPT ![id] =
                                   IF last_call[id] = "record_failure" THEN @ ELSE now]
          /\ calls' = LastTwo(calls, <<"record_failure", id>>)
    /\ observed_before' = Observation
    /\ now' = now + 1
    /\ UNCHANGED <<configVars, pipelineVars, taskVars, successful_requests, breakerVars,
                   fetches, only_terminal, first_ok, last_op, last_ret, before,
                   consecutive, snapshotVars>>

\* error_tracker.record_success(vacancy_id)
LedgerRecordSuccess ==
    /\ run = "ledger"
    /\ now < MaxTime
    /\ \E id \in Ids :
          /\ successful_requests' = AddSuccess(successful_requests, id)
          /\ failed_requests' = RemoveRecord(failed_requests, id)
          /\ last_call' = [last_call EXCEPT ![id] = "record_success"]
          /\ first_failure' = [first_failure EXCEPT ![id] = NoneValue]
          /\ calls' = LastTwo(calls, <<"record_success", id>>)
    /\ observed_before' = Observation
    /\ now' = now + 1
    /\ UNCHANGED <<configVars, pipelineVars, taskVars, breakerVars, fetches,
                   only_terminal, first_ok, last_op, last_ret, before, consecutive,
                   snapshotVars>>

\* error_tracker.save_failed_to_file(filepath)
LedgerSave ==
    /\ run = "ledger"
    /\ now < MaxTime
    /\ file' = save_failed_to_file(failed_requests, file)
    /\ calls' = LastTwo(calls, <<"save_failed_to_file", 0>>)
    /\ observed_before' = Observation
    /\ now' = now + 1
    /\ UNCHANGED <<configVars, pipelineVars, taskVars, ledgerVars, breakerVars, fetches,
                   only_terminal, first_ok, last_op, last_ret, before, consecutive,
                   last_call, first_failure, loaded>>

\* error_tracker.load_failed_from_file(filepath)
LedgerLoad ==
    /\ run = "ledger"
    /\ now < MaxTime
    /\ loaded' = load_failed_from_file(file)
    /\ calls' = LastTwo(calls, <<"load_failed_from_file", 0>>)
    /\ observed_before' = Observation
    /\ now' = now + 1
    /\ UNCHANGED <<configVars, pipelineVars, taskVars, ledgerVars, breakerVars, fetches,
                   only_terminal, first_ok, last_op, last_ret, before, consecutive,
                   last_call, first_failure, file>>

NextLedger ==
    \/ LedgerRecordFailure
    \/ LedgerRecordSuccess
    \/ LedgerSave
    \/ LedgerLoad

SpecLedger == InitLedger /\ [][NextLedger]_vars

(***************************************************************************)
(* Properties.                                                             *)
(***************************************************************************)
PayloadIds == SeqToSet(all_details)
FailedIds == SeqToSet(get_failed_ids(failed_requests))
Recorded == last_op = "should_retry" /\ failure_count = before.failure_count + 1

\* C1: when fetch_details_async returns, every submitted identifier is in
\* exactly one of the returned payloads and the ledger's failed_ids().
C1_ExactlyOne ==
    (run = "async" /\ phase = "done") =>
        \A id \in Ids : (id \in PayloadIds) # (id \in FailedIds)

\* a run that returned with one identifier recovered by the re-drive pass and
\* another one still failed
C1_Witness ==
    /\ run = "async" /\ phase = "done"
    /\ \E id \in PayloadIds : fetches["retry"][id] > 0
    /\ FailedIds # {}

\* C2: the fetch operations simultaneously in flight never exceed
\* max_concurrent, in a details run (both passes) and in a search run.
C2_ConcurrencyCeiling ==
    /\ Cardinality(InFlight) <= MaxConcurrent
    /\ Cardinality(PagesInFlight) <= MaxConcurrent

\* every slot is taken and another task of the same window waits for one
C2_Witness ==
    /\ run = "async"
    /\ Cardinality(InFlight) = MaxConcurrent
    /\ \E id \in Ids : pc[id] = "ready"

\* C3: within one pass no identifier triggers more than max_attempts fetch
\* operations.
C3_RetryCeiling ==
    \A p \in Passes : \A id \in Ids : fetches[p][id] <= MaxAttempts

\* an identifier that used its whole budget in the first pass and again in
\* the re-drive pass
C3_Witness ==
    \E id \in Ids : fetches["first"][id] = MaxAttempts /\ fetches["retry"][id] = MaxAttempts

\* C4: the failure that completes failure_threshold consecutive failures of a
\* CLOSED breaker opens it; an OPEN breaker whose timeout has not elapsed
\* answers false and stays as it is; OPEN is left only for HALF_OPEN, only by
\* should_retry and only after more than recovery_timeout since the last
\* recorded failure.
C4_OpenUntilTimeout ==
    /\ (Recorded /\ before.state = "CLOSED" /\ consecutive >= FailureThreshold)
           => state = "OPEN"
    /\ (last_op = "should_retry" /\ before.state = "OPEN"
            /\ now - before.last_failure_time <= RecoveryTimeout)
           => (~last_ret /\ CurrentBreaker = before)
    /\ (before.state = "OPEN" /\ state # "OPEN")
           => /\ state = "HALF_OPEN"
              /\ last_op = "should_retry"
              /\ now - before.last_failure_time > RecoveryTimeout
    /\ (before.state = "OPEN" /\ last_op # "should_retry") => CurrentBreaker = before

\* a should_retry call refused by a breaker that failure_threshold consecutive
\* failures had opened
C4_Witness ==
    /\ last_op = "should_retry" /\ before.state = "OPEN" /\ state = "OPEN"
    /\ ~last_ret
    /\ consecutive >= FailureThreshold

\* C5: a failure recorded while HALF_OPEN brings the breaker back to OPEN.
C5_HalfOpenFailureReopens ==
    (Recorded /\ before.state = "HALF_OPEN") => state = "OPEN"

\* C6: while the breaker is OPEN and its timeout has not elapsed, the
\* dispatcher issues no fetch operation.
C6_NoFetchWhileOpen ==
    [][(strategy = "circuit_breaker" /\ state = "OPEN"
            /\ ~TimeoutElapsed(CurrentBreaker, now))
        => fetches' = fetches]_vars

\* C7: record_success on a HALF_OPEN breaker closes it with a zero failure
\* count, and nothing else closes a HALF_OPEN breaker.
C7_HalfOpenClosesOnSuccessOnly ==
    /\ (before.state = "HALF_OPEN" /\ last_op = "record_success")
           => (state = "CLOSED" /\ failure_count = 0)
    /\ (before.state = "HALF_OPEN" /\ state = "CLOSED") => last_op = "record_success"
    /\ (before.state = "HALF_OPEN" /\ last_op # "record_success") => state = "HALF_OPEN"

\* a HALF_OPEN breaker with recorded failures that a success has just closed
C7_Witness ==
    /\ before.state = "HALF_OPEN" /\ before.failure_count > 0
    /\ last_op = "record_success"
    /\ state = "CLOSED"

\* C8 as stated: the breaker goes from CLOSED to OPEN only when the last
\* failure_threshold outcomes signalled to it were all failures.
C8_OpensOnlyAfterConsecutive ==
    (before.state = "CLOSED" /\ state = "OPEN") => consecutive >= FailureThreshold

\* C8 amended: the breaker goes from CLOSED to OPEN only by a recorded failure
\* that raises failure_count to failure_threshold, and a success signalled
\* while CLOSED lowers failure_count by one, not below zero, and leaves the
\* breaker CLOSED.
C8_OpensOnCount ==
    /\ (before.state = "CLOSED" /\ state = "OPEN")
           => (Recorded /\ failure_count = FailureThreshold)
    /\ (before.state = "CLOSED" /\ last_op = "record_success")
           => /\ state = "CLOSED"
              /\ failure_count = Max(0, before.failure_count - 1)

\* a breaker opened by fewer than failure_threshold consecutive failures
C8_Witness ==
    /\ before.state = "CLOSED" /\ state = "OPEN"
    /\ consecutive < FailureThreshold

\* C9: a successful fetch that finds the breaker HALF_OPEN closes it.
C9_SuccessClosesHalfOpen ==
    [][(strategy = "circuit_breaker" /\ state = "HALF_OPEN"
            /\ \E id \in Ids : pc[id] = "fetching" /\ task_result'[id] = "payload")
        => state' = "CLOSED"]_vars

\* C10 as stated: an identifier whose every fetch returns a non-retryable
\* status is fetched exactly once in the invocation and ends failed.
C10_TerminalFetchedOnce ==
    (run \in {"async", "sync"} /\ phase = "done") =>
        \A id \in only_terminal :
            /\ fetches["first"][id] + fetches["retry"][id] = 1
            /\ id \in FailedIds

\* C10 amended: such an identifier is fetched exactly once in each pass, once
\* in the first pass and once in the re-drive pass, and ends in the final
\* failure set and not among the payloads.
C10_TerminalFetchedOncePerPass ==
    (run \in {"async", "sync"} /\ phase = "done") =>
        \A id \in only_terminal :
            /\ fetches["first"][id] = 1
            /\ fetches["retry"][id] = 1
            /\ id \in FailedIds
            /\ id \notin PayloadIds

\* a finished run in which some identifier met nothing but non-retryable
\* statuses
C10_Witness ==
    /\ run = "async" /\ phase = "done"
    /\ \E id \in only_terminal : fetches["retry"][id] = 1

\* C11: a fetch that fails with no HTTP status code (the HTTPException with
\* status 0 of a network error or a timeout) is retried within the pass while
\* its attempt number is below max_attempts: the dispatcher never gives an
\* identifier up on such a failure at an earlier attempt.
C11_NetworkErrorRetried ==
    (run = "async" /\ strategy = "exponential") =>
        \A i \in 1..Len(failed_requests) :
            ~ /\ failed_requests[i].last_error = "http"
              /\ failed_requests[i].last_status_code = 0
              /\ failed_requests[i].attempts < MaxAttempts

\* C12: while an identifier waits after a 429 response that carried a
\* server-suggested duration, the delay it sleeps is exactly that duration.
C12_HonorsRetryAfter ==
    \A id \in Ids :
        (pc[id] = "sleeping" /\ retry_after[id] # NoneValue) => delay[id] = retry_after[id]

NoDuplicates(ids) == \A i, j \in 1..Len(ids) : ids[i] = ids[j] => i = j

\* C13: an invocation runs at most one re-drive pass.  The re-drive pass
\* dispatches exactly the identifiers that did not succeed in the first pass,
\* each once; in either pass the fetches of an identifier are numbered from
\* attempt 1; an identifier that succeeded in the first pass is not fetched
\* in the re-drive pass; after the re-drive pass the invocation is over.
C13_OneRedrive ==
    run \in {"async", "sync"} =>
        /\ phase = "retry" =>
               (NoDuplicates(pass_ids) /\ SeqToSet(pass_ids) = Ids \ first_ok)
        /\ \A id \in Ids :
               fetches["retry"][id] > 0 =>
                   (phase # "first" /\ id \in SeqToSet(pass_ids) /\ id \notin first_ok)
        /\ \A id \in Ids :
               pc[id] \in {"fetching", "sleeping"} => attempt[id] = fetches[phase][id]
        /\ phase = "done" => \A id \in Ids \ first_ok : fetches["retry"][id] >= 1

\* a finished run whose re-drive pass fetched one identifier and left alone
\* another that had succeeded in the first pass
C13_Witness ==
    /\ run = "async" /\ phase = "done"
    /\ \E id \in Ids : fetches["retry"][id] >= 1
    /\ \E id \in first_ok : fetches["retry"][id] = 0

\* C14: when SyncVacancyDetailsFetcher.fetch_details returns, every submitted
\* identifier is in exactly one of the returned payloads and failed_ids(); an
\* identifier recovered by the re-drive pass is a payload and no longer failed.
C14_SyncExactlyOne ==
    (run = "sync" /\ phase = "done") =>
        \A id \in Ids : (id \in PayloadIds) # (id \in FailedIds)

\* C15: a failure of one identifier never aborts the batch.  No task of
\* fetch_details_async ends by raising; once the first pass is over every
\* submitted identifier has been fetched at least once; and when the
\* invocation returns, an identifier without a payload is an entry of the
\* failure ledger.
C15_FailureIsolated ==
    run = "async" =>
        /\ \A id \in Ids : task_result[id] \in {"None", "payload"}
        /\ phase # "first" => \A id \in Ids : fetches["first"][id] >= 1
        /\ phase = "done" => \A id \in Ids \ PayloadIds : id \in FailedIds

\* a finished run in which one identifier failed for good and another one,
\* later in the list, was fetched and returned
C15_Witness ==
    /\ run = "async" /\ phase = "done"
    /\ \E a \in FailedIds : \E b \in PayloadIds : a < b /\ fetches["first"][b] >= 1

\* C16: the slots of the semaphore are held by the fetches in flight and by
\* nothing else; an identifier waiting out its backoff delay holds none, so
\* the slot it used is free for the other identifiers of the window.
C16_BackoffHoldsNoSlot ==
    run = "async" =>
        /\ MaxConcurrent - semaphore = Cardinality(InFlight)
        /\ \A id \in Ids : pc[id] = "sleeping" => id \notin InFlight

\* one identifier sleeps between two attempts while another identifier of the
\* same window holds the last slot
C16_Witness ==
    /\ run = "async"
    /\ semaphore = 0
    /\ \E a, b \in SeqToSet(CurrentWindow) : pc[a] = "sleeping" /\ pc[b] = "fetching"

\* C17: when every identifier fails its first k attempts with a retryable
\* status and attempt k + 1 succeeds (1 <= k < max_attempts), no re-drive pass
\* is run, and the run returns one payload per identifier, an empty failure
\* set, and has fetched every identifier exactly k + 1 times.
C17_RecoversWithinPass ==
    /\ phase # "retry"
    /\ phase = "done" =>
           /\ all_details = InputIds
           /\ FailedIds = {}
           /\ \A id \in Ids : fetches["first"][id] = script + 1 /\ fetches["retry"][id] = 0

\* a finished run of the scripted server that used the whole retry budget
C17_Witness ==
    /\ phase = "done"
    /\ script = MaxAttempts - 1
    /\ \A id \in Ids : fetches["first"][id] = MaxAttempts

\* C18: after any sequence of record_failure and record_success calls, an
\* identifier is in failed_ids() exactly when the most recent ledger call for
\* it was record_failure, and failed_ids() holds it at most once.
C18_FailedIffLastCallFailed ==
    /\ \A id \in Ids : (id \in FailedIds) <=> (last_call[id] = "record_failure")
    /\ NoDuplicates(get_failed_ids(failed_requests))

\* an identifier that failed twice in a row, and another one whose failure
\* was followed by a success
C18_Witness ==
    /\ Len(calls) = 2 /\ calls[1] = calls[2] /\ calls[2][1] = "record_failure"
    /\ \E id \in Ids : last_call[id] = "record_success" /\ id \in successful_requests
    /\ Len(failed_requests) = 1

\* C19: record_success(id) called twice in a row leaves failed_ids() and
\* statistics() as the first of the two calls left them.
C19_RecordSuccessIdempotent ==
    (Len(calls) = 2 /\ calls[1] = calls[2] /\ calls[2][1] = "record_success")
        => Observation = observed_before

\* record_success called twice in a row for an identifier, with a failure of
\* another identifier on record
C19_Witness ==
    /\ Len(calls) = 2 /\ calls[1] = calls[2] /\ calls[2][1] = "record_success"
    /\ failed_requests # <<>>
    /\ calls[2][2] \in successful_requests

\* C20: the timestamp of a record is the time of the identifier's first
\* failure since its last success; a later record_failure leaves it as it is.
C20_TimestampOfFirstFailure ==
    \A i \in 1..Len(failed_requests) :
        failed_requests[i].timestamp = first_failure[failed_requests[i].vacancy_id]

\* C21: save_failed_to_file(path) followed by load_failed_from_file(path)
\* returns the identifiers of failed_ids() at the moment of the save, whatever
\* the file held before (the empty list when nothing is currently failed).
C21_SnapshotRoundTrip ==
    (/\ Len(calls) = 2
     /\ calls[1][1] = "save_failed_to_file"
     /\ calls[2][1] = "load_failed_from_file")
        => loaded = get_failed_ids(failed_requests)

\* C30: after any sequence of record_failure and record_success calls, the
\* identifiers counted as successful and those counted as failed are disjoint,
\* total_successful + total_failed is the number of distinct identifiers
\* recorded, and success_rate is 100 * total_successful over that number (0
\* when nothing was recorded).
C30_CountsEachOnce ==
    LET stats == get_statistics(failed_requests, successful_requests)
        recorded == {id \in Ids : last_call[id] # "none"}
    IN  /\ successful_requests \cap FailedIds = {}
        /\ stats.total_successful + stats.total_failed = Cardinality(recorded)
        /\ stats.success_rate * Cardinality(recorded) <= stats.total_successful * 100000
        /\ recorded = {} => stats.success_rate = 0

\* pages requested so far
Requested == {p \in Pages : page_pc[p] # "none"}
\* the items of the pages 0..last, in page order
Accumulated(last) == ExtendPages(<<>>, 0, last)
\* last page of every window: a window of search_async, a page of the sync loop
WindowEnds ==
    IF run = "sync_search"
    THEN Pages
    ELSE {Min(start + SearchBatchSize, total_pages) - 1 :
             start \in {q \in 1..(total_pages - 1) : (q - 1) % SearchBatchSize = 0}}

\* C22: with max_results = M >= 1, once a window has ended with M or more
\* items accumulated, no page beyond that window is requested and the result
\* is the first M accumulated items; the driver never returns more than M.
C22_StopsAtLimit ==
    max_vacancies # 0 =>
        /\ \A last \in WindowEnds :
              (/\ \A p \in 0..last : page_pc[p] = "done"
               /\ Len(Accumulated(last)) >= max_vacancies)
                  => /\ \A p \in Pages : p > last => p \notin Requested
                     /\ search_pc = "done"
                            => all_vacancies = Truncate(Accumulated(last), max_vacancies)
        /\ search_pc = "done" => Len(all_vacancies) <= max_vacancies

\* search_async stopped after its first window with a surplus cut off and a
\* page left that it never requested
C22_Witness ==
    /\ run = "search"
    /\ search_pc = "done"
    /\ total_pages = MaxPages
    /\ max_vacancies # 0
    /\ Len(Accumulated(SearchBatchSize)) > max_vacancies
    /\ Len(all_vacancies) = max_vacancies
    /\ (MaxPages - 1) \notin Requested

\* C23: with max_results set, page p >= 1 is requested only if the items of
\* the pages 0..p-1 together number fewer than max_results.
C23_NoPageBeyondThreshold ==
    max_vacancies # 0 =>
        \A p \in Requested :
            (p >= 1 /\ \A q \in 0..(p - 1) : page_pc[q] = "done")
                => Len(Accumulated(p - 1)) < max_vacancies

\* C24: an async fetcher or an async searcher constructed with
\* max_concurrent <= 0 fails at construction, so that no run is started and no
\* fetch waits for a slot under a non-positive ceiling.
C24_NonPositiveCeilingRejected ==
    max_concurrent <= 0 =>
        /\ run = "async" => phase = "ValueError"
        /\ run = "search" => search_pc = "ValueError"
        /\ \A id \in Ids : pc[id] = "none"
        /\ \A p \in Pages : page_pc[p] = "none"

\* C25: for the exponential, linear, Fibonacci, jitter and adaptive policies,
\* should_retry(context) is true exactly when context.attempt < max_attempts
\* and no status code is known or the status code is in the configured
\* retryable set, the empty set included.
C25_ShouldRetryIffBudgetAndRetryable ==
    policy_call.op = "should_retry" =>
        (policy_ret.retry <=>
            /\ policy_call.attempt < policy_call.max_attempts
            /\ \/ policy_call.status_code = NoneValue
               \/ policy_call.status_code \in policy_call.retryable_status_codes)

\* C26: for the exponential policy with initial_delay >= 0 and
\* backoff_factor >= 1, get_delay(a) is the smaller of
\* initial_delay * backoff_factor^a and max_delay, it is at most max_delay, and
\* get_delay(a + 1) >= get_delay(a).
C26_ExponentialDelayMonotoneCapped ==
    (policy_call.op = "get_delay" /\ policy_call.kind = "exponential") =>
        LET cfg == policy_call.delays
            a == policy_call.attempt
            raw == cfg.initial_delay * cfg.backoff_factor ^ a
        IN  /\ policy_ret.delay = IF raw <= cfg.max_delay THEN raw ELSE cfg.max_delay
            /\ policy_ret.delay <= cfg.max_delay
            /\ exponential_get_delay(cfg, a + 1) >= policy_ret.delay

\* a delay that the ceiling cut, after one that it did not
C26_Witness ==
    /\ policy_call.op = "get_delay"
    /\ policy_call.kind = "exponential"
    /\ policy_call.attempt >= 1
    /\ policy_ret.delay = policy_call.delays.max_delay
    /\ policy_call.delays.initial_delay * policy_call.delays.backoff_factor ^ policy_call.attempt
           > policy_call.delays.max_delay
    /\ exponential_get_delay(policy_call.delays, policy_call.attempt - 1)
           < policy_call.delays.max_delay

\* C27: with the adaptive policy, the delay the dispatcher gets from
\* get_delay(attempt) depends on the failure that triggered the retry:
\* rate_limit_delay after a 429, default_delay * server_error_backoff^attempt
\* after a 5xx, forbidden_delay after a 403, default_delay otherwise.
C27_AdaptiveDelayByFailureKind ==
    (policy_call.op = "get_delay" /\ policy_call.kind = "adaptive") =>
        LET cfg == policy_call.delays
            status_code == policy_call.status_code
        IN  policy_ret.delay =
                IF status_code = 429 THEN cfg.rate_limit_delay
                ELSE IF status_code >= 500 /\ status_code < 600
                THEN cfg.initial_delay * cfg.backoff_factor ^ policy_call.attempt
                ELSE IF status_code = 403 THEN cfg.forbidden_delay
                ELSE cfg.initial_delay

\* C28: in every state the breaker reaches by should_retry and record_success
\* calls and clock advances, CLOSED implies failure_count < failure_threshold,
\* OPEN or HALF_OPEN implies a recorded last failure time, failure_count >= 0,
\* and a should_retry call made while OPEN before the timeout has elapsed
\* leaves failure_count, the last failure time and the state as they were.
C28_BreakerInvariant ==
    /\ state = "CLOSED" => failure_count < FailureThreshold
    /\ state \in {"OPEN", "HALF_OPEN"} => last_failure_time # NoneValue
    /\ failure_count >= 0
    /\ (last_op = "should_retry" /\ before.state = "OPEN" /\ ~TimeoutElapsed(before, now))
           => /\ failure_count = before.failure_count
              /\ last_failure_time = before.last_failure_time
              /\ state = before.state

\* a failure recorded by a CLOSED breaker that leaves it CLOSED, one failure
\* short of its threshold
C28_Witness ==
    /\ state = "CLOSED"
    /\ failure_count = FailureThreshold - 1
    /\ Recorded
    /\ before.state = "CLOSED"
    /\ last_failure_time # NoneValue

\* C29: if every fetch operation returns, fetch_details_async returns, and no
\* identifier has then been fetched more than 2 * max_attempts times
\* (max_attempts in the first pass and max_attempts in the re-drive pass).
C29_Terminates ==
    /\ [](\A id \in Ids : fetches["first"][id] + fetches["retry"][id] <= 2 * MaxAttempts)
    /\ <>(phase = "done")

\* the invocation returned after an identifier used up both budgets
C29_Witness ==
    /\ phase = "done"
    /\ \E id \in Ids : fetches["first"][id] + fetches["retry"][id] = 2 * MaxAttempts

====
